---- MODULE Spec2Model ----
(***************************************************************************)
(* Model of MonitorMELI: the marketplace listing monitor.                  *)
(*                                                                         *)
(* Texts (hrefs, label texts, HTML, the contents of skus.csv) are TLA+     *)
(* strings and every matcher works on their characters, so that a regular  *)
(* expression or a substring test of the source decides here what it       *)
(* decides there.                                                          *)
(***************************************************************************)
EXTENDS Integers, Sequences, FiniteSets, TLC

VARIABLES
    arg,            \* the arguments of the function under study
    res,            \* what each implementation of it returned
    pc,             \* where main is
    urlListado,     \* page.url() matches /publicaciones/listado
    waited,         \* pauses of waitForManualLogin so far
    loginSeen,      \* main or waitForManualLogin saw the URL match
    skusRead,       \* readSkusCsv was called
    skus,           \* the SKU list
    idx,            \* entries of the list the loop is done with
    page,           \* what the browser page shows
    files,          \* out/page-<sku>.html, by sku
    saved,          \* per entry done or under way: what its turn of the loop did
    rows,           \* the records collected
    navigations,    \* page.goto calls for a SKU
    csvWrites,      \* writes of results.csv
    csv,            \* the records in results.csv
    reportWrites,   \* writes of out/report.html
    prompts,        \* promptSubjectAndConfirm calls
    sends,          \* transporter.sendMail calls
    mail,           \* what the email step read: environment and answer
    ctxClosed,      \* context.close() was called
    exit            \* "running", or how the process ended

fnVars == <<arg, res>>
mainVars ==
    <<pc, urlListado, waited, loginSeen, skusRead, skus, idx, page, files, saved, rows,
      navigations, csvWrites, csv, reportWrites, prompts, sends, mail, ctxClosed, exit>>
vars == <<fnVars, mainVars>>

(***************************************************************************)
(* Characters and strings                                                  *)
(***************************************************************************)
\* the character of s at position i, "" outside of s
Ch(s, i) == IF i >= 1 /\ i <= Len(s) THEN SubSeq(s, i, i) ELSE ""

UpperAlphabet == "ABCDEFGHIJKLMNOPQRSTUVWXYZ"
LowerAlphabet == "abcdefghijklmnopqrstuvwxyz"

UpperLetters == {SubSeq(UpperAlphabet, i, i) : i \in 1..Len(UpperAlphabet)}
LowerLetters == {SubSeq(LowerAlphabet, i, i) : i \in 1..Len(LowerAlphabet)}
LowerOf ==
    [c \in UpperLetters |->
        SubSeq(LowerAlphabet, CHOOSE i \in 1..Len(UpperAlphabet) : SubSeq(UpperAlphabet, i, i) = c,
                              CHOOSE i \in 1..Len(UpperAlphabet) : SubSeq(UpperAlphabet, i, i) = c)]

LowerCh(c) == IF c \in UpperLetters THEN LowerOf[c] ELSE c

RECURSIVE toLowerCase(_)
toLowerCase(s) ==
    IF s = "" THEN "" ELSE LowerCh(Ch(s, 1)) \o toLowerCase(SubSeq(s, 2, Len(s)))

\* the regular expression classes \s, \d and \w (ASCII part)
IsSpace(c) == c \in {" ", "\t", "\n", "\r", "\f"}
IsDigit(c) == c \in {"0", "1", "2", "3", "4", "5", "6", "7", "8", "9"}
IsLetter(c) == c \in UpperLetters \/ c \in LowerLetters
IsWordCh(c) == IsDigit(c) \/ IsLetter(c) \/ c = "_"

\* p occurs in s at position i
StartsAt(s, p, i) ==
    /\ i >= 1
    /\ i + Len(p) - 1 <= Len(s)
    /\ SubSeq(s, i, i + Len(p) - 1) = p

\* p (given in lower case) occurs in s at position i, letter case ignored
StartsAtCI(s, p, i) ==
    /\ i >= 1
    /\ i + Len(p) - 1 <= Len(s)
    /\ LowerCh(Ch(s, i)) = Ch(p, 1)
    /\ toLowerCase(SubSeq(s, i, i + Len(p) - 1)) = p

\* String.prototype.includes
includes(s, p) == \E i \in 1..(Len(s) - Len(p) + 1) : Ch(s, i) = Ch(p, 1) /\ StartsAt(s, p, i)

\* /p/i.test(s) for a pattern p of literal letters (given in lower case)
TestCI(s, p) == includes(toLowerCase(s), p)

\* \b at position i: between the characters i-1 and i of s
WordBoundary(s, i) ==
    (i > 1 /\ i - 1 <= Len(s) /\ IsWordCh(Ch(s, i - 1))) # (i >= 1 /\ i <= Len(s) /\ IsWordCh(Ch(s, i)))

\* the end of the run of characters of class \s starting at i (i - 1 if none)
SpaceRunEnd(s, i) ==
    CHOOSE j \in (i - 1)..Len(s) :
        /\ \A k \in i..j : IsSpace(Ch(s, k))
        /\ (j = Len(s) \/ ~IsSpace(Ch(s, j + 1)))

DigitRunEnd(s, i) ==
    CHOOSE j \in (i - 1)..Len(s) :
        /\ \A k \in i..j : IsDigit(Ch(s, k))
        /\ (j = Len(s) \/ ~IsDigit(Ch(s, j + 1)))

\* s.replace(/\s+/g, " ")
RECURSIVE CollapseSpaces(_)
CollapseSpaces(s) ==
    IF s = "" THEN ""
    ELSE IF IsSpace(Ch(s, 1))
         THEN " " \o CollapseSpaces(SubSeq(s, SpaceRunEnd(s, 1) + 1, Len(s)))
         ELSE Ch(s, 1) \o CollapseSpaces(SubSeq(s, 2, Len(s)))

\* String.prototype.trim
trim(s) ==
    IF \A k \in 1..Len(s) : IsSpace(Ch(s, k)) THEN ""
    ELSE LET a == CHOOSE i \in 1..Len(s) :
                      ~IsSpace(Ch(s, i)) /\ \A k \in 1..(i - 1) : IsSpace(Ch(s, k))
             b == CHOOSE j \in 1..Len(s) :
                      ~IsSpace(Ch(s, j)) /\ \A k \in (j + 1)..Len(s) : IsSpace(Ch(s, k))
         IN  SubSeq(s, a, b)

clean(s) == trim(CollapseSpaces(s))

\* .filter(Boolean) on strings
NotEmpty(t) == t # ""

\* JavaScript's null and undefined, where a string may stand instead
Null == "<null>"
NotRun == "<not run>"

\* MLU\d{6,}: the least number of digits of an item id
MinIdDigits == 6

(***************************************************************************)
(* The item-id pickers                                                     *)
(***************************************************************************)
\* /(?:\?|&)itemId=(MLU\d{6,})\b/i matches s at position i.  \d{6,} is greedy
\* and a shorter run of digits ends between two digits, where \b fails: the
\* only candidate is the whole run of digits.
ItemIdMatchesAt(s, i) ==
    /\ Ch(s, i) \in {"?", "&"}
    /\ StartsAtCI(s, "itemid=", i + 1)
    /\ StartsAtCI(s, "mlu", i + 8)
    /\ DigitRunEnd(s, i + 11) - (i + 11) + 1 >= MinIdDigits
    /\ WordBoundary(s, DigitRunEnd(s, i + 11) + 1)

\* m[1] of s.match(/(?:\?|&)itemId=(MLU\d{6,})\b/i), "" when there is no match
ItemIdCapture(s) ==
    LET hits == {i \in 1..Len(s) : ItemIdMatchesAt(s, i)}
    IN  IF hits = {} THEN ""
        ELSE LET i == CHOOSE k \in hits : \A o \in hits : k <= o
             IN  SubSeq(s, i + 8, DigitRunEnd(s, i + 11))

\* the end of the run of the letter d (or D) starting at i (i - 1 if none)
LetterDRunEnd(s, i) ==
    CHOOSE j \in (i - 1)..Len(s) :
        /\ \A k \in i..j : LowerCh(Ch(s, k)) = "d"
        /\ (j = Len(s) \/ LowerCh(Ch(s, j + 1)) # "d")

\* /(?:\\?|&)itemId=(MLU\\d{6,})\\b/i: in a regular expression literal \\ is
\* one backslash character, so this asks for the text itemId=MLU\ followed
\* by six or more letters d and by the two characters \b; the group before
\* itemId may match nothing.  j is the position of itemId.
EscapedItemIdMatchesAt(s, j) ==
    /\ StartsAtCI(s, "itemid=mlu\\", j)
    /\ LetterDRunEnd(s, j + 11) - (j + 11) + 1 >= MinIdDigits
    /\ StartsAtCI(s, "\\b", LetterDRunEnd(s, j + 11) + 1)

EscapedItemIdCapture(s) ==
    LET hits == {j \in 1..Len(s) : EscapedItemIdMatchesAt(s, j)}
    IN  IF hits = {} THEN ""
        ELSE LET j == CHOOSE k \in hits : \A o \in hits : k <= o
             IN  SubSeq(s, j + 7, LetterDRunEnd(s, j + 11))

\* extract.ts: the first href of the list that matches
RECURSIVE pickItemId(_)
pickItemId(hrefs) ==
    IF hrefs = <<>> THEN ""
    ELSE IF Head(hrefs) = Null \/ Head(hrefs) = "" THEN pickItemId(Tail(hrefs))
    ELSE IF ItemIdCapture(Head(hrefs)) # "" THEN ItemIdCapture(Head(hrefs))
    ELSE pickItemId(Tail(hrefs))

pickItemIdFromHref_v1(href) ==
    IF href = Null \/ href = "" THEN "" ELSE EscapedItemIdCapture(href)

pickItemIdFromHref_v2(href) ==
    IF href = Null \/ href = "" THEN "" ELSE ItemIdCapture(href)

(***************************************************************************)
(* The strict HTML parser (parseHtmlForSku that returns null when the      *)
(* page has no row for the SKU)                                            *)
(***************************************************************************)
Min(S) == CHOOSE x \in S : \A y \in S : x <= y
Max(S) == CHOOSE x \in S : \A y \in S : x >= y

\* the first position >= from where p occurs in s, 0 if none
FirstAt(s, p, from) ==
    LET hits == {i \in from..Len(s) : Ch(s, i) = Ch(p, 1) /\ StartsAt(s, p, i)}
    IN  IF hits = {} THEN 0 ELSE Min(hits)

FirstAtCI(s, p, from) ==
    LET hits == {i \in from..Len(s) : LowerCh(Ch(s, i)) = Ch(p, 1) /\ StartsAtCI(s, p, i)}
    IN  IF hits = {} THEN 0 ELSE Min(hits)

\* no character c in s[a..b]
NoneIn(s, c, a, b) == \A k \in a..b : Ch(s, k) # c

RowOpen == "<div class=\"sc-list-item-row sc-list-item-row--catalog"
DivClose == "</div>"

\* the last position of a match of <\/div>\s*<\/div>\s*<\/div> that starts at j,
\* 0 if there is none
RowCloseEnd(h, j) ==
    IF ~StartsAt(h, DivClose, j) THEN 0
    ELSE LET j2 == SpaceRunEnd(h, j + Len(DivClose)) + 1
         IN  IF ~StartsAt(h, DivClose, j2) THEN 0
             ELSE LET j3 == SpaceRunEnd(h, j2 + Len(DivClose)) + 1
                  IN  IF StartsAt(h, DivClose, j3) THEN j3 + Len(DivClose) - 1 ELSE 0

\* html.match(/<div class="sc-list-item-row sc-list-item-row--catalog[\s\S]*?
\* <\/div>\s*<\/div>\s*<\/div>/g) from position p on: the matches, left to
\* right, each ending at the first closing run after its opening
RECURSIVE RowsFrom(_, _)
RowsFrom(h, p) ==
    LET i == FirstAt(h, RowOpen, p)
        closes == {j \in (i + Len(RowOpen))..Len(h) : Ch(h, j) = "<" /\ RowCloseEnd(h, j) > 0}
    IN  IF i = 0 \/ closes = {} THEN <<>>
        ELSE <<SubSeq(h, i, RowCloseEnd(h, Min(closes)))>>
                 \o RowsFrom(h, RowCloseEnd(h, Min(closes)) + 1)

\* new RegExp(`\\bSKU\\s*${sku}\\b`, "i").test(r), for a sku made of digits:
\* \s* must take the whole run of blanks, since sku starts with a digit
NeedleTest(r, sku) ==
    \E i \in 1..Len(r) :
        /\ LowerCh(Ch(r, i)) = "s"
        /\ WordBoundary(r, i)
        /\ StartsAtCI(r, "sku", i)
        /\ LET k == SpaceRunEnd(r, i + 3) + 1
           IN  StartsAt(r, sku, k) /\ WordBoundary(r, k + Len(sku))

\* the variant of part_001: sliceRowForSku(html, fallbackSku) || html
sliceRowForSku_orWholePage(html, sku) ==
    LET matched == RowsFrom(html, 1)
        found == {n \in 1..Len(matched) : NeedleTest(matched[n], sku)}
    IN  IF found = {} THEN html ELSE matched[Min(found)]

\* the row of the strict parser, Null when no row carries the label
sliceRowForSku(html, sku) ==
    LET matched == RowsFrom(html, 1)
        found == {n \in 1..Len(matched) : NeedleTest(matched[n], sku)}
    IN  IF found = {} THEN Null ELSE matched[Min(found)]

\* the last position of a match of w1\s+w2\s+...wn at k, 0 if none
RECURSIVE WordsEnd(_, _, _, _)
WordsEnd(s, k, words, ci) ==
    LET w == Head(words)
    IN  IF ~(IF ci THEN StartsAtCI(s, w, k) ELSE StartsAt(s, w, k)) THEN 0
        ELSE IF Len(words) = 1 THEN k + Len(w) - 1
        ELSE LET e == SpaceRunEnd(s, k + Len(w))
             IN  IF e < k + Len(w) THEN 0 ELSE WordsEnd(s, e + 1, Tail(words), ci)

\* hay(/>\s*W\s*<\//) where W is words joined by \s+; ci is the i flag
hayBadge(row, words, ci) ==
    \E i \in 1..Len(row) :
        /\ Ch(row, i) = ">"
        /\ LET e == WordsEnd(row, SpaceRunEnd(row, i + 1) + 1, words, ci)
           IN  e > 0 /\ StartsAt(row, "</", SpaceRunEnd(row, e + 1) + 1)

LabelClass == "sc-list-item-status-switch__label"

\* hay(/sc-list-item-status-switch__label[^>]*>\s*W\s*</i)
hayLabel(row, word) ==
    \E i \in 1..Len(row) :
        /\ LowerCh(Ch(row, i)) = "s"
        /\ StartsAtCI(row, LabelClass, i)
        /\ LET g == FirstAt(row, ">", i + Len(LabelClass))
           IN  /\ g > 0
               /\ LET k == SpaceRunEnd(row, g + 1) + 1
                  IN  /\ StartsAtCI(row, word, k)
                      /\ StartsAt(row, "<", SpaceRunEnd(row, k + Len(word)) + 1)

RowClass == "sc-list-item-row"

\* hay(/sc-list-item-row[^"]*--suffix/i)
hayRowClass(row, suffix) ==
    \E i \in 1..Len(row) :
        /\ LowerCh(Ch(row, i)) = "s"
        /\ StartsAtCI(row, RowClass, i)
        /\ \E j \in (i + Len(RowClass))..Len(row) :
               /\ Ch(row, j) = "-"
               /\ StartsAtCI(row, suffix, j)
               /\ NoneIn(row, "\"", i + Len(RowClass), j - 1)

NoMatch == [found |-> FALSE]

\* The leftmost match in r, letter case ignored, of
\*     OPEN[^>]*class="[^"]*CLS[^"]*"[^>]*>([\s\S]*?)CLOSE
\* with \b on both sides of CLS when bounded: where it starts, where the group
\* starts and where CLOSE starts.  The greedy [^>]* takes the last class=" of
\* the tag; the group ends at the first CLOSE.
\*
\* the class=" of the tag opened at i from which the rest can match
TagClassesAt(r, open, cls, bounded, close, i) ==
    {c \in (i + Len(open))..Len(r) :
        /\ LowerCh(Ch(r, c)) = "c"
        /\ StartsAtCI(r, "class=\"", c)
        /\ NoneIn(r, ">", i + Len(open), c - 1)
        /\ \E t \in (c + 7)..Len(r) :
               /\ StartsAtCI(r, cls, t)
               /\ NoneIn(r, "\"", c + 7, t - 1)
               /\ bounded => (WordBoundary(r, t) /\ WordBoundary(r, t + Len(cls)))
               /\ LET q == FirstAt(r, "\"", t + Len(cls))
                  IN  /\ q > 0
                      /\ FirstAt(r, ">", q + 1) > 0
                      /\ FirstAtCI(r, close, FirstAt(r, ">", q + 1) + 1) > 0}

\* the match, given the > that ends the opening tag
TagMatchAtGroup(r, close, i, g) ==
    [found |-> TRUE, start |-> i, group |-> g + 1, close |-> FirstAtCI(r, close, g + 1)]

\* the match, given the class=" it goes through
TagMatchAtClass(r, cls, close, i, c) ==
    TagMatchAtGroup(r, close, i,
        FirstAt(r, ">",
            FirstAt(r, "\"",
                Min({u \in (c + 7)..Len(r) :
                        StartsAtCI(r, cls, u) /\ NoneIn(r, "\"", c + 7, u - 1)}) + Len(cls)) + 1))

\* the match, given the positions where it can start
TagMatchFrom(r, open, cls, bounded, close, starts) ==
    IF starts = {} THEN NoMatch
    ELSE TagMatchAtClass(r, cls, close, Min(starts),
             Max(TagClassesAt(r, open, cls, bounded, close, Min(starts))))

TagClassMatch(r, open, cls, bounded, close) ==
    TagMatchFrom(r, open, cls, bounded, close,
        {i \in 1..Len(r) :
            /\ Ch(r, i) = "<"
            /\ StartsAtCI(r, open, i)
            /\ TagClassesAt(r, open, cls, bounded, close, i) # {}})

TitleClass == "sc-list-item-row-description__title"

\* the match of the second title pattern, given where the tag ends
TitleMatchAtGroup(r, start, g) ==
    [found |-> TRUE, start |-> start, group |-> g + 1, close |-> FirstAtCI(r, "</a>", g + 1)]

TitleMatchFrom(r, lit, starts) ==
    IF starts = {} THEN NoMatch
    ELSE TitleMatchAtGroup(r, Min(starts), FirstAt(r, ">", Min(starts) + Len(lit)))

TitleLiteral == "class=\"" \o TitleClass \o "\""

\* row.match(/class="sc-list-item-row-description__title"[^>]*>([\s\S]*?)<\/a>/i)
TitleMatchExact(r) ==
    TitleMatchFrom(r, TitleLiteral,
        {i \in 1..Len(r) :
            /\ LowerCh(Ch(r, i)) = "c"
            /\ StartsAtCI(r, TitleLiteral, i)
            /\ FirstAt(r, ">", i + Len(TitleLiteral)) > 0
            /\ FirstAtCI(r, "</a>", FirstAt(r, ">", i + Len(TitleLiteral)) + 1) > 0})

\* inner.replace(/<[^>]+>/g, " ")
RECURSIVE StripTags(_)
StripTags(s) ==
    IF s = "" THEN ""
    ELSE IF Ch(s, 1) = "<" /\ Len(s) >= 3 /\ Ch(s, 2) # ">" /\ FirstAt(s, ">", 3) > 0
         THEN " " \o StripTags(SubSeq(s, FirstAt(s, ">", 3) + 1, Len(s)))
         ELSE Ch(s, 1) \o StripTags(SubSeq(s, 2, Len(s)))

\* a || b on matches
FirstFound(a, b) == IF a.found THEN a ELSE b

\* clean(inner.replace(/<[^>]+>/g, " ")) of the group of the match
TituloOfMatch(row, m) ==
    IF m.found THEN clean(StripTags(SubSeq(row, m.group, m.close - 1))) ELSE ""

\* the titulo of the row, "" when no title anchor matches
TituloOfRow(row) ==
    TituloOfMatch(row, FirstFound(TagClassMatch(row, "<a", TitleClass, TRUE, "</a>"),
                                  TitleMatchExact(row)))

\* m[1] of row.match(/\bSKU\s+(\d{1,})\b/i), Null when there is no match
SkuOfRow(row) ==
    LET ok(i) == /\ LowerCh(Ch(row, i)) = "s"
                 /\ WordBoundary(row, i)
                 /\ StartsAtCI(row, "sku", i)
                 /\ SpaceRunEnd(row, i + 3) >= i + 3
                 /\ LET k == SpaceRunEnd(row, i + 3) + 1
                    IN  DigitRunEnd(row, k) >= k /\ WordBoundary(row, DigitRunEnd(row, k) + 1)
        hits == {i \in 1..Len(row) : ok(i)}
    IN  IF hits = {} THEN Null
        ELSE LET k == SpaceRunEnd(row, Min(hits) + 3) + 1
             IN  SubSeq(row, k, DigitRunEnd(row, k))

SwitchClass == "sc-list-item-status-switch__switch"
StatusSwitchClass == "sc-list-item-status-switch"

\* match?.[0] of a block that ends with close, "" when there is no match
MatchedText(row, m, close) ==
    IF m.found THEN SubSeq(row, m.start, m.close + Len(close) - 1) ELSE ""

\* a || b on strings
FirstNonEmpty(a, b) == IF a # "" THEN a ELSE b

\* match[0] of the <label ...switch__switch...>...</label> block, else of the
\* <div ...status-switch...>...</div> block, else ""
SwitchBlock(row) ==
    FirstNonEmpty(
        MatchedText(row, TagClassMatch(row, "<label", SwitchClass, FALSE, "</label>"), "</label>"),
        MatchedText(row, TagClassMatch(row, "<div", StatusSwitchClass, FALSE, "</div>"), "</div>"))

Quotes == {"\"", "'"}

\* the positions right after a match of role=["']switch["'] in b
AfterRoleSwitch(b) ==
    {i + 13 : i \in {k \in 1..Len(b) :
        /\ LowerCh(Ch(b, k)) = "r"
        /\ StartsAtCI(b, "role=", k)
        /\ Ch(b, k + 5) \in Quotes
        /\ StartsAtCI(b, "switch", k + 6)
        /\ Ch(b, k + 12) \in Quotes}}

\* /role=["']switch["'][^>]*\bchecked\b/i.test(b)
SwitchChecked(b) ==
    \E p \in AfterRoleSwitch(b) : \E j \in p..Len(b) :
        /\ StartsAtCI(b, "checked", j)
        /\ WordBoundary(b, j)
        /\ WordBoundary(b, j + 7)
        /\ NoneIn(b, ">", p, j - 1)

\* /role=["']switch["'][^>]*aria-checked=["']v["']/i.test(b)
SwitchAriaChecked(b, v) ==
    \E p \in AfterRoleSwitch(b) : \E j \in p..Len(b) :
        /\ StartsAtCI(b, "aria-checked=", j)
        /\ Ch(b, j + 13) \in Quotes
        /\ StartsAtCI(b, v, j + 14)
        /\ Ch(b, j + 14 + Len(v)) \in Quotes
        /\ NoneIn(b, ">", p, j - 1)

\* the tests of the strict parser, were Perdiendo tested first
CompetenciaOfRow_perdiendoFirst(row) ==
    IF hayBadge(row, <<"perdiendo">>, TRUE) THEN "Perdiendo"
    ELSE IF hayBadge(row, <<"ganando">>, TRUE) THEN "Ganando"
    ELSE IF hayBadge(row, <<"compartiendo", "primer", "lugar">>, TRUE) THEN "Compartiendo primer lugar"
    ELSE IF hayBadge(row, <<"COMPITIENDO">>, FALSE) THEN "Compartiendo primer lugar"
    ELSE "SIN_ESTADO"

\* ESTADO_COMPETENCIA of the strict parser
CompetenciaOfRow(row) ==
    IF hayBadge(row, <<"ganando">>, TRUE) THEN "Ganando"
    ELSE IF hayBadge(row, <<"perdiendo">>, TRUE) THEN "Perdiendo"
    ELSE IF hayBadge(row, <<"compartiendo", "primer", "lugar">>, TRUE) THEN "Compartiendo primer lugar"
    ELSE IF hayBadge(row, <<"COMPITIENDO">>, FALSE) THEN "Compartiendo primer lugar"
    ELSE "SIN_ESTADO"

\* the third step of ESTADO_OPERATIVO: checked or aria-checked of the switch
OperativoOfSwitch(switchBlock) ==
    IF switchBlock = "" THEN "UNKNOWN"
    ELSE IF SwitchChecked(switchBlock) THEN "Activa"
    ELSE IF SwitchAriaChecked(switchBlock, "true") THEN "Activa"
    ELSE IF SwitchAriaChecked(switchBlock, "false") THEN "Pausada"
    ELSE "UNKNOWN"

\* the chain of the strict parser, were the row classes consulted before
\* the status label
OperativoOfRow_classesFirst(row) ==
    IF hayRowClass(row, "--active") THEN "Activa"
    ELSE IF hayRowClass(row, "--paused") THEN "Pausada"
    ELSE IF hayRowClass(row, "--inactive") THEN "Inactiva"
    ELSE IF hayLabel(row, "activa") THEN "Activa"
    ELSE IF hayLabel(row, "pausada") THEN "Pausada"
    ELSE IF hayLabel(row, "inactiva") THEN "Inactiva"
    ELSE OperativoOfSwitch(SwitchBlock(row))

\* ESTADO_OPERATIVO of the strict parser: label, then row classes, then switch
OperativoOfRow(row) ==
    IF hayLabel(row, "activa") THEN "Activa"
    ELSE IF hayLabel(row, "pausada") THEN "Pausada"
    ELSE IF hayLabel(row, "inactiva") THEN "Inactiva"
    ELSE IF hayRowClass(row, "--active") THEN "Activa"
    ELSE IF hayRowClass(row, "--paused") THEN "Pausada"
    ELSE IF hayRowClass(row, "--inactive") THEN "Inactiva"
    ELSE OperativoOfSwitch(SwitchBlock(row))

NullRecord == [isNull |-> TRUE]

\* Boolean(out.itemId || out.titulo || out.sku !== fallbackSku)
hasData_strict(out, fallbackSku) == out.itemId # "" \/ out.titulo # "" \/ out.sku # fallbackSku

\* if (mSku) out.sku = mSku[1]
SkuOrFallback(mSku, fallbackSku) == IF mSku # Null THEN mSku ELSE fallbackSku

\* return hasData ? out : null
OutIfData(out, fallbackSku) == IF hasData_strict(out, fallbackSku) THEN out ELSE NullRecord

\* parseHtmlForSku once the row is sliced
ParseRow(row, fallbackSku) ==
    IF row = Null THEN NullRecord
    ELSE OutIfData([isNull |-> FALSE,
                    sku |-> SkuOrFallback(SkuOfRow(row), fallbackSku),
                    itemId |-> ItemIdCapture(row),
                    estado_competencia |-> CompetenciaOfRow(row),
                    estado_operativo |-> OperativoOfRow(row),
                    titulo |-> TituloOfRow(row)],
                   fallbackSku)

parseHtmlForSku(html, fallbackSku) == ParseRow(sliceRowForSku(html, fallbackSku), fallbackSku)

(***************************************************************************)
(* inferOperativo: the three extractFromPage modules                       *)
(***************************************************************************)
inferOperativo(txt, ariaChecked) ==
    IF TestCI(txt, "activa") THEN "Activa"
    ELSE IF TestCI(txt, "pausada") THEN "Pausada"
    ELSE IF TestCI(txt, "inactiva") THEN "Inactiva"
    ELSE IF ariaChecked = "true" THEN "Activa"
    ELSE IF ariaChecked = "false" THEN "Pausada"
    ELSE "UNKNOWN"

inferOperativo_v1(txt, ariaChecked) ==
    LET lc == toLowerCase(txt)
    IN  IF includes(lc, "activa") THEN "Activa"
        ELSE IF includes(lc, "pausada") THEN "Pausada"
        ELSE IF includes(lc, "inactiva") THEN "Inactiva"
        ELSE IF ariaChecked = "true" THEN "Activa"
        ELSE IF ariaChecked = "false" THEN "Pausada"
        ELSE "UNKNOWN"

inferOperativo_v2(txt, ariaChecked) ==
    LET lc == toLowerCase(txt)
    IN  IF includes(lc, "activa") THEN "Activa"
        ELSE IF includes(lc, "pausada") THEN "Pausada"
        ELSE IF includes(lc, "inactiva") THEN "Inactiva"
        ELSE IF ariaChecked = "true" THEN "Activa"
        ELSE IF ariaChecked = "false" THEN "Pausada"
        ELSE "UNKNOWN"

(***************************************************************************)
(* inferCompetencia and pickTitle of the extractFromPage modules           *)
(***************************************************************************)
inferCompetencia(txt) ==
    IF TestCI(txt, "ganando") THEN "Ganando"
    ELSE IF TestCI(txt, "perdiendo") THEN "Perdiendo"
    ELSE IF \/ \E i \in 1..Len(txt) : WordsEnd(txt, i, <<"compartiendo", "primer", "lugar">>, TRUE) > 0
            \/ TestCI(txt, "compitiendo")
         THEN "Compartiendo primer lugar"
    ELSE "SIN_ESTADO"

inferCompetencia_v1(txt) ==
    LET lc == toLowerCase(txt)
    IN  IF includes(lc, "ganando") THEN "Ganando"
        ELSE IF includes(lc, "perdiendo") THEN "Perdiendo"
        ELSE IF includes(lc, "compartiendo primer lugar") \/ includes(lc, "compitiendo")
             THEN "Compartiendo primer lugar"
        ELSE "SIN_ESTADO"

inferCompetencia_v2(txt) ==
    LET lc == toLowerCase(txt)
    IN  IF includes(lc, "ganando") THEN "Ganando"
        ELSE IF includes(lc, "perdiendo") THEN "Perdiendo"
        ELSE IF includes(lc, "compartiendo primer lugar") \/ includes(lc, "compitiendo")
             THEN "Compartiendo primer lugar"
        ELSE "SIN_ESTADO"

\* xs.sort((a, b) => b.length - a.length)[0] || "": the sort is stable, so
\* this is the first of the longest strings
FirstLongest(xs) ==
    IF xs = <<>> THEN ""
    ELSE xs[Min({i \in 1..Len(xs) : \A j \in 1..Len(xs) : Len(xs[j]) <= Len(xs[i])})]

MapClean(xs) == [i \in 1..Len(xs) |-> clean(xs[i])]

\* pickTitle (the same in both modules that have it)
pickTitle(candidates) ==
    LET NotAction(t) == ~(StartsAtCI(t, "modificar", 1) \/ StartsAtCI(t, "ir a promociones", 1))
    IN  FirstLongest(SelectSeq(SelectSeq(MapClean(candidates), NotEmpty), NotAction))

\* text.split(/\r?\n/)
RECURSIVE SplitLines(_)
SplitLines(s) ==
    LET n == FirstAt(s, "\n", 1)
    IN  IF n = 0 THEN <<s>>
        ELSE <<SubSeq(s, 1, IF Ch(s, n - 1) = "\r" THEN n - 2 ELSE n - 1)>>
                 \o SplitLines(SubSeq(s, n + 1, Len(s)))

(***************************************************************************)
(* The three extractFromPage.  What Playwright reads from the page is the  *)
(* record dom: visible (the row is shown), texts (the text of each element *)
(* of the row, in document order), links (text and href of each anchor),   *)
(* innerText (of the row), heading, hasSwitch and aria (aria-checked of    *)
(* the first switch), linksFail (reading the anchors throws).              *)
(***************************************************************************)
LinkTexts(dom) == [i \in 1..Len(dom.links) |-> dom.links[i].text]

\* the hrefs of the anchors that have one
LinkHrefs(dom) ==
    LET HasHref(l) == l.href # Null
        ls == SelectSeq(dom.links, HasHref)
    IN  [i \in 1..Len(ls) |-> ls[i].href]

\* getFirstText(locator): the cleaned text of the first element that matches, ""
\* when none does (textContent times out and the catch returns "")
\* hits are the places, in texts, of the elements the locator matches
FirstText(texts, hits) == IF hits = {} THEN "" ELSE clean(texts[Min(hits)])

\* :text-matches("(Ganando|Perdiendo|Compartiendo\\s+primer\\s+lugar|Compitiendo)", "i")
CompetenciaText(t) ==
    \/ TestCI(t, "ganando") \/ TestCI(t, "perdiendo") \/ TestCI(t, "compitiendo")
    \/ \E i \in 1..Len(t) : WordsEnd(t, i, <<"compartiendo", "primer", "lugar">>, TRUE) > 0

\* :text-matches("(Activa|Pausada|Inactiva)", "i")
OperativoText(t) == TestCI(t, "activa") \/ TestCI(t, "pausada") \/ TestCI(t, "inactiva")

\* the test of extract.ts, were every record kept
hasData_always(record) == TRUE

\* record.titulo || record.itemId, in each of the three modules
hasData(record) == record.titulo # "" \/ record.itemId # ""
hasData_v1(record) == record.titulo # "" \/ record.itemId # ""
hasData_v2(record) == record.titulo # "" \/ record.itemId # ""

\* src/extract.ts
extractFromPage(dom, sku) ==
    LET IsSkuText(t) == NeedleTest(t, sku)
    IN  IF ~dom.visible \/ SelectSeq(dom.texts, IsSkuText) = <<>> THEN NullRecord
        ELSE LET record ==
                     [isNull |-> FALSE,
                      sku |-> sku,
                      itemId |-> IF dom.linksFail THEN "" ELSE pickItemId(LinkHrefs(dom)),
                      estado_competencia |-> inferCompetencia(
                          FirstText(dom.texts, {i \in 1..Len(dom.texts) : CompetenciaText(dom.texts[i])})),
                      estado_operativo |-> inferOperativo(
                          FirstText(dom.texts, {i \in 1..Len(dom.texts) : OperativoText(dom.texts[i])}),
                          dom.aria),
                      titulo |-> IF dom.linksFail THEN ""
                                 ELSE FirstLongest(SelectSeq(MapClean(LinkTexts(dom)), NotEmpty))]
             IN  IF hasData(record) THEN record ELSE NullRecord

\* for (const href of hrefs) { itemId = pick(href); if (itemId) break; }
\* picked[i] is pickItemIdFromHref of the i-th href
FirstPicked(picked) ==
    IF \A i \in 1..Len(picked) : picked[i] = "" THEN ""
    ELSE picked[Min({i \in 1..Len(picked) : picked[i] # ""})]

PickAll_v1(hrefs) == [i \in 1..Len(hrefs) |-> pickItemIdFromHref_v1(hrefs[i])]
PickAll_v2(hrefs) == [i \in 1..Len(hrefs) |-> pickItemIdFromHref_v2(hrefs[i])]

\* the href of the first link named Modificar, Null when there is none
ModificarHref(dom) ==
    LET IsModificar(l) == l.href # Null /\ TestCI(l.text, "modificar")
        ls == SelectSeq(dom.links, IsModificar)
    IN  IF ls = <<>> THEN Null ELSE ls[1].href

\* the first extractFromPage of part_001 (semantic locators)
extractFromPage_v1(dom, sku) ==
    LET text == clean(dom.innerText)
    IN  IF ~dom.visible \/ ~NeedleTest(dom.innerText, sku) \/ text = "" THEN NullRecord
        ELSE LET heading == clean(dom.heading)
                 titulo == IF heading # "" THEN heading
                           ELSE IF dom.linksFail THEN ""
                           ELSE pickTitle(LinkTexts(dom))
                 fromModificar == pickItemIdFromHref_v1(ModificarHref(dom))
                 itemId == IF fromModificar # "" THEN fromModificar
                           ELSE IF dom.linksFail THEN ""
                           ELSE FirstPicked(PickAll_v1(LinkHrefs(dom)))
                 record == [isNull |-> FALSE,
                            sku |-> sku,
                            itemId |-> itemId,
                            estado_competencia |-> inferCompetencia_v1(text),
                            estado_operativo |-> inferOperativo_v1(text, dom.aria),
                            titulo |-> titulo]
             IN  IF hasData_v1(record) THEN record ELSE NullRecord

blacklist ==
    <<"experiencia de compra", "modificar", "promociones", "ver", "ganando", "perdiendo",
      "compartiendo primer lugar", "compitiendo", "activa", "pausada", "inactiva",
      "unidades vendidas", "flex", "unidades", "cuotas", "envío">>

Blacklisted(t) ==
    LET lc == toLowerCase(t)
    IN  \E b \in 1..Len(blacklist) : includes(lc, blacklist[b])

\* the least length of a line taken as title (ln.length > 5)
MinTitleLine == 5

\* the second extractFromPage of part_001 (relative location)
extractFromPage_v2(dom, sku) ==
    LET IsAnchor(t) == includes(toLowerCase(clean(t)), "sku " \o toLowerCase(sku))
        text == clean(dom.innerText)
    IN  IF \/ ~dom.visible
           \/ SelectSeq(dom.texts, IsAnchor) = <<>>
           \/ ~(dom.hasSwitch \/ \E i \in 1..Len(dom.links) : TestCI(dom.links[i].text, "modificar"))
           \/ text = ""
        THEN NullRecord
        ELSE LET heading == clean(dom.heading)
                 LineOk(ln) == ln # "" /\ ~Blacklisted(ln) /\ Len(ln) > MinTitleLine
                 lines == SelectSeq(MapClean(SplitLines(text)), LineOk)
                 LinkOk(t) == t # "" /\ ~Blacklisted(t)
                 cands == SelectSeq(MapClean(LinkTexts(dom)), LinkOk)
                 titulo == IF heading # "" THEN heading
                           ELSE IF lines # <<>> THEN FirstLongest(lines)
                           ELSE IF dom.linksFail \/ cands = <<>> THEN ""
                           ELSE cands[1]
                 fromModificar == pickItemIdFromHref_v2(ModificarHref(dom))
                 itemId == IF fromModificar # "" THEN fromModificar
                           ELSE IF dom.linksFail THEN ""
                           ELSE FirstPicked(PickAll_v2(LinkHrefs(dom)))
                 record == [isNull |-> FALSE,
                            sku |-> sku,
                            itemId |-> itemId,
                            estado_competencia |-> inferCompetencia_v2(text),
                            estado_operativo |-> inferOperativo_v2(text, dom.aria),
                            titulo |-> titulo]
             IN  IF hasData_v2(record) THEN record ELSE NullRecord

(***************************************************************************)
(* readSkusCsv                                                             *)
(***************************************************************************)
\* line.split(/,|\t/)[0]
FirstColumn(line) ==
    LET seps == {i \in 1..Len(line) : Ch(line, i) \in {",", "\t"}}
    IN  IF seps = {} THEN line ELSE SubSeq(line, 1, Min(seps) - 1)

\* t.replace(/[^\d]/g, "")
RECURSIVE OnlyDigits(_)
OnlyDigits(t) ==
    IF t = "" THEN ""
    ELSE (IF IsDigit(Ch(t, 1)) THEN Ch(t, 1) ELSE "") \o OnlyDigits(SubSeq(t, 2, Len(t)))

\* /^\d+$/.test(t)
AllDigits(t) == t # "" /\ \A i \in 1..Len(t) : IsDigit(Ch(t, i))

MapTrim(xs) == [i \in 1..Len(xs) |-> trim(xs[i])]

\* file is the content of skus.csv, Null when the file does not exist
readSkusCsv(file) ==
    IF file = Null THEN <<>>
    ELSE LET lines == SelectSeq(MapTrim(SplitLines(file)), NotEmpty)
             startIdx == IF lines # <<>> /\ IsLetter(Ch(lines[1], 1)) THEN 1 ELSE 0
             body == SubSeq(lines, startIdx + 1, Len(lines))
             tokens == [i \in 1..Len(body) |-> OnlyDigits(trim(FirstColumn(body[i])))]
         IN  SelectSeq(tokens, AllDigits)

(***************************************************************************)
(* The studies of single functions leave main idle, and main leaves them   *)
(***************************************************************************)
NoPage == [html |-> "", shown |-> {}]
NoMail == [read |-> FALSE]

MainIdle ==
    /\ pc = "idle"
    /\ urlListado = FALSE
    /\ waited = 0
    /\ loginSeen = FALSE
    /\ skusRead = FALSE
    /\ skus = <<>>
    /\ idx = 0
    /\ page = NoPage
    /\ files = <<>>
    /\ saved = <<>>
    /\ rows = <<>>
    /\ navigations = 0
    /\ csvWrites = 0
    /\ csv = <<>>
    /\ reportWrites = 0
    /\ prompts = 0
    /\ sends = 0
    /\ mail = NoMail
    /\ ctxClosed = FALSE
    /\ exit = "running"

(***************************************************************************)
(* Specification SpecOperativo: the three inferOperativo on the same input *)
(***************************************************************************)
LabelTexts ==
    {"Activa", "ACTIVA", "activa", "Pausada", "PAUSADA", "Inactiva", "INACTIVA",
     "inactiva", "", "Ganando", "SKU 1001"}
AriaValues == {"true", "false", "mixed", Null}

InitOperativo ==
    /\ MainIdle
    /\ arg \in [txt : LabelTexts, ariaChecked : AriaValues]
    /\ res = [extract |-> NotRun, v1 |-> NotRun, v2 |-> NotRun]

RunInferOperativo ==
    /\ res.extract = NotRun
    /\ res' = [res EXCEPT !.extract = inferOperativo(arg.txt, arg.ariaChecked)]
    /\ UNCHANGED <<arg, mainVars>>

RunInferOperativoV1 ==
    /\ res.v1 = NotRun
    /\ res' = [res EXCEPT !.v1 = inferOperativo_v1(arg.txt, arg.ariaChecked)]
    /\ UNCHANGED <<arg, mainVars>>

RunInferOperativoV2 ==
    /\ res.v2 = NotRun
    /\ res' = [res EXCEPT !.v2 = inferOperativo_v2(arg.txt, arg.ariaChecked)]
    /\ UNCHANGED <<arg, mainVars>>

NextOperativo == RunInferOperativo \/ RunInferOperativoV1 \/ RunInferOperativoV2

SpecOperativo == InitOperativo /\ [][NextOperativo]_vars

\* the status a label text names, by the text alone
NamedOperativo(txt) ==
    LET lc == toLowerCase(txt)
    IN  IF lc = "inactiva" THEN "Inactiva"
        ELSE IF lc = "activa" THEN "Activa"
        ELSE IF lc = "pausada" THEN "Pausada"
        ELSE "none"

\* C3: in each of the three variants a label text 'Inactiva' (any letter case)
\* gives 'Inactiva', 'Activa' gives 'Activa' and 'Pausada' gives 'Pausada',
\* whatever aria-checked says.
C3_LabelNamesStatus ==
    \A v \in {"extract", "v1", "v2"} :
        (res[v] # NotRun /\ NamedOperativo(arg.txt) # "none") => res[v] = NamedOperativo(arg.txt)

(***************************************************************************)
(* Specification SpecItemId: the four item-id pickers on the same hrefs    *)
(***************************************************************************)
MaxHrefs == 2

Hrefs ==
    {"/syi/core/modify?itemId=MLU123456",
     "/p?x=1&itemId=MLU1234567",
     "/p?itemId=MLU654321&y=2",
     "/p?itemId=MLU12345",
     "/p?itemId=MLU123456x",
     "/p?itemid=mlu123456",
     "/p?itemId=MLA123456",
     "/p?myitemId=MLU123456",
     "/p?itemId=MLU\\dddddd\\b",
     "/publicaciones/listado",
     "",
     Null}

SeqsUpTo(S, n) == UNION {[1..k -> S] : k \in 1..n}

\* the anchors of a row, as the strict parser reads them
AnchorsHtml(hrefs) ==
    IF Len(hrefs) = 0 THEN ""
    ELSE LET RECURSIVE Anchors(_)
             Anchors(hs) ==
                 IF hs = <<>> THEN ""
                 ELSE (IF Head(hs) = Null THEN "<a>x</a>"
                       ELSE "<a href=\"" \o Head(hs) \o "\">x</a>") \o Anchors(Tail(hs))
         IN  Anchors(hrefs)

InitItemId ==
    /\ MainIdle
    /\ arg \in [hrefs : SeqsUpTo(Hrefs, MaxHrefs)]
    /\ res = [extract |-> NotRun, v1 |-> NotRun, v2 |-> NotRun, strict |-> NotRun]

RunPickItemId ==
    /\ res.extract = NotRun
    /\ res' = [res EXCEPT !.extract = pickItemId(arg.hrefs)]
    /\ UNCHANGED <<arg, mainVars>>

RunPickItemIdFromHrefV1 ==
    /\ res.v1 = NotRun
    /\ res' = [res EXCEPT !.v1 = pickItemIdFromHref_v1(Head(arg.hrefs))]
    /\ UNCHANGED <<arg, mainVars>>

RunPickItemIdFromHrefV2 ==
    /\ res.v2 = NotRun
    /\ res' = [res EXCEPT !.v2 = pickItemIdFromHref_v2(Head(arg.hrefs))]
    /\ UNCHANGED <<arg, mainVars>>

RunRowItemId ==
    /\ res.strict = NotRun
    /\ res' = [res EXCEPT !.strict = ItemIdCapture(AnchorsHtml(arg.hrefs))]
    /\ UNCHANGED <<arg, mainVars>>

NextItemId ==
    RunPickItemId \/ RunPickItemIdFromHrefV1 \/ RunPickItemIdFromHrefV2 \/ RunRowItemId

SpecItemId == InitItemId /\ [][NextItemId]_vars

\* href carries itemId=MLU<six or more digits> right after a ? or &, spelled
\* as in the claim and ended by the end of the href or by &
PlainItemIdAt(h, i) ==
    /\ Ch(h, i) \in {"?", "&"}
    /\ StartsAt(h, "itemId=MLU", i + 1)
    /\ DigitRunEnd(h, i + 11) - (i + 11) + 1 >= MinIdDigits
    /\ Ch(h, DigitRunEnd(h, i + 11) + 1) \in {"", "&"}

HasPlainItemId(h) == h # Null /\ \E i \in 1..Len(h) : PlainItemIdAt(h, i)

PlainItemId(h) ==
    LET i == Min({k \in 1..Len(h) : PlainItemIdAt(h, k)})
    IN  SubSeq(h, i + 8, DigitRunEnd(h, i + 11))

\* href has no itemId parameter in any spelling
HasNoItemId(h) == h = Null \/ ~TestCI(h, "itemid=")

\* C4: every picker returns the MLU identifier of an href that carries
\* ?itemId= or &itemId= followed by MLU and six or more digits, and the
\* empty string for an href without the parameter (single hrefs).
C4_PickersReturnItemId ==
    \A v \in {"extract", "v1", "v2", "strict"} :
        (res[v] # NotRun /\ Len(arg.hrefs) = 1) =>
            LET h == Head(arg.hrefs)
            IN  /\ HasPlainItemId(h) => res[v] = PlainItemId(h)
                /\ HasNoItemId(h) => res[v] = ""

(***************************************************************************)
(* Specification SpecExtract: the four extractors on the same listing row. *)
(* A row is described by what the listing shows (arg.row); RowHtml is its  *)
(* markup, which the strict parser reads, and Dom what Playwright reads of *)
(* it for the three extractFromPage.                                       *)
(***************************************************************************)
MaxBadges == 2

GoodHref == "/syi/core/modify?itemId=MLU123456"
SkuLabels == {"SKU 1001", "SKU1001", "SKU 77 / SKU 1001"}
Titles == {"", "Mate Imperial", " <b>Termo</b>\n 1L "}
RowHrefs == {Null, GoodHref, "/p?itemId=MLU12345"}
BadgeTexts ==
    {"Ganando", "GANANDO", " Perdiendo ", "Compartiendo  primer lugar", "COMPITIENDO",
     "Compitiendo", "Nuevo"}
StatusTexts == {"", "Activa", "Pausada", "Inactiva"}
RowClasses == {"", "--active", "--paused", "--inactive"}
Switches == {"none", "checked", "aria-checked=\"true\"", "aria-checked=\"false\""}
TestSkus == {"1001", "100"}

DefaultRow ==
    [skuLabel |-> "SKU 1001", title |-> "Mate Imperial", href |-> GoodHref, modHref |-> Null,
     badges |-> <<>>, status |-> "", rowClass |-> "", switch |-> "checked",
     visible |-> TRUE, linksFail |-> FALSE]

DataRows ==
    {[DefaultRow EXCEPT !.skuLabel = l, !.title = t, !.href = h, !.modHref = m,
                        !.visible = v, !.linksFail = f, !.badges = <<"Ganando">>,
                        !.status = "Activa"] :
        l \in SkuLabels, t \in Titles, h \in RowHrefs, m \in RowHrefs,
        v \in BOOLEAN, f \in BOOLEAN}

\* rows that show nothing but the SKU label and, at most, a link
BareRows ==
    {[DefaultRow EXCEPT !.skuLabel = l, !.title = "", !.href = h, !.switch = sw] :
        l \in SkuLabels, h \in RowHrefs, sw \in {"none", "checked"}}

BadgeRows ==
    {[DefaultRow EXCEPT !.badges = b] : b \in {<<>>} \cup SeqsUpTo(BadgeTexts, MaxBadges)}

OperativoRows ==
    {[DefaultRow EXCEPT !.status = st, !.rowClass = c, !.switch = sw] :
        st \in StatusTexts, c \in RowClasses, sw \in Switches}

RECURSIVE BadgesHtml(_)
BadgesHtml(badges) ==
    IF badges = <<>> THEN ""
    ELSE "<span class=\"badge\">" \o Head(badges) \o "</span>" \o BadgesHtml(Tail(badges))

RowHtml(d) ==
    RowOpen \o (IF d.rowClass = "" THEN "" ELSE " sc-list-item-row" \o d.rowClass) \o "\"><div>"
    \o "<a class=\"sc-list-item-row-description__title\""
    \o (IF d.href = Null THEN "" ELSE " href=\"" \o d.href \o "\"") \o ">" \o d.title \o "</a>"
    \o "<span>" \o d.skuLabel \o "</span>"
    \o BadgesHtml(d.badges)
    \o (IF d.switch = "none" THEN ""
        ELSE "<label class=\"sc-list-item-status-switch__switch\"><input role=\"switch\" "
                 \o d.switch \o "></label>")
    \o (IF d.status = "" THEN ""
        ELSE "<span class=\"sc-list-item-status-switch__label\">" \o d.status \o "</span>")
    \o (IF d.modHref = Null THEN "" ELSE "<a href=\"" \o d.modHref \o "\">Modificar</a>")
    \o "</div></div></div>"

PageHtml(rowsHtml) == "<html><body><div id=\"list\">" \o rowsHtml \o "</div></body></html>"

\* a row of another listing, shown before the row under study
OtherRowHtml ==
    RowOpen \o "\"><div><a class=\"sc-list-item-row-description__title\" "
    \o "href=\"/syi/core/modify?itemId=MLU999999\">Bombilla</a><span>SKU 2002</span>"
    \o "<span class=\"badge\">Perdiendo</span></div></div></div>"

Dom(d) ==
    LET titleText == clean(StripTags(d.title))
        texts == <<titleText, d.skuLabel>> \o d.badges
                     \o (IF d.status = "" THEN <<>> ELSE <<d.status>>)
                     \o (IF d.modHref = Null THEN <<>> ELSE <<"Modificar">>)
        RECURSIVE Join(_)
        Join(ts) == IF ts = <<>> THEN ""
                    ELSE IF Len(ts) = 1 THEN Head(ts)
                    ELSE Head(ts) \o "\n" \o Join(Tail(ts))
    IN  [visible |-> d.visible,
         texts |-> texts,
         links |-> <<[text |-> titleText, href |-> d.href]>>
                       \o (IF d.modHref = Null THEN <<>>
                           ELSE <<[text |-> "Modificar", href |-> d.modHref]>>),
         innerText |-> Join(texts),
         heading |-> "",
         hasSwitch |-> d.switch # "none",
         aria |-> IF d.switch = "aria-checked=\"true\"" THEN "true"
                  ELSE IF d.switch = "aria-checked=\"false\"" THEN "false"
                  ELSE Null,
         linksFail |-> d.linksFail]

\* no result yet, where the result is a record
Pending == [pending |-> TRUE]

InitExtract ==
    /\ MainIdle
    /\ arg \in [row : DataRows \cup BareRows \cup BadgeRows \cup OperativoRows, sku : TestSkus]
    /\ res = [extract |-> Pending, v1 |-> Pending, v2 |-> Pending, strict |-> Pending]

RunExtractFromPage ==
    /\ res.extract = Pending
    /\ res' = [res EXCEPT !.extract = extractFromPage(Dom(arg.row), arg.sku)]
    /\ UNCHANGED <<arg, mainVars>>

RunExtractFromPageV1 ==
    /\ res.extract # Pending /\ res.v1 = Pending
    /\ res' = [res EXCEPT !.v1 = extractFromPage_v1(Dom(arg.row), arg.sku)]
    /\ UNCHANGED <<arg, mainVars>>

RunExtractFromPageV2 ==
    /\ res.v1 # Pending /\ res.v2 = Pending
    /\ res' = [res EXCEPT !.v2 = extractFromPage_v2(Dom(arg.row), arg.sku)]
    /\ UNCHANGED <<arg, mainVars>>

RunParseHtmlForSku ==
    /\ res.v2 # Pending /\ res.strict = Pending
    /\ res' = [res EXCEPT !.strict =
                   parseHtmlForSku(PageHtml(OtherRowHtml \o RowHtml(arg.row)), arg.sku)]
    /\ UNCHANGED <<arg, mainVars>>

NextExtract ==
    RunExtractFromPage \/ RunExtractFromPageV1 \/ RunExtractFromPageV2 \/ RunParseHtmlForSku

SpecExtract == InitExtract /\ [][NextExtract]_vars

Extractors == {"extract", "v1", "v2", "strict"}
IsRecord(r) == r # Pending /\ ~r.isNull

\* C5 (as claimed): every record an extractor returns has a non-empty titulo
\* or a non-empty itemId.
C5_RecordHasTituloOrItemId ==
    \A v \in Extractors : IsRecord(res[v]) => (res[v].titulo # "" \/ res[v].itemId # "")

\* the row shows no title, no link text and no href with an item id
NothingToExtract(d) ==
    /\ clean(StripTags(d.title)) = ""
    /\ d.modHref = Null
    /\ ~HasPlainItemId(d.href)

\* the text of the row is of no use as a title for the third extractFromPage
NoTitleLine(d) ==
    LET text == clean(Dom(d).innerText)
    IN  Len(text) <= MinTitleLine \/ Blacklisted(text)

\* C5 (amended): a record of an extractFromPage has a titulo or an itemId; a
\* record of the strict parser has a titulo, an itemId or a sku, re-read from
\* the row, that differs from the SKU asked for; a row that shows none of
\* these gives null.
C5_RecordHasData ==
    /\ \A v \in {"extract", "v1", "v2"} :
           IsRecord(res[v]) => (res[v].titulo # "" \/ res[v].itemId # "")
    /\ IsRecord(res.strict) =>
           (res.strict.titulo # "" \/ res.strict.itemId # "" \/ res.strict.sku # arg.sku)
    /\ NothingToExtract(arg.row) =>
           /\ res.extract \in {Pending, NullRecord}
           /\ res.v1 \in {Pending, NullRecord}
           /\ NoTitleLine(arg.row) => res.v2 \in {Pending, NullRecord}
           /\ SkuOfRow(RowHtml(arg.row)) \in {Null, arg.sku} => res.strict \in {Pending, NullRecord}

\* the strict parser returned a record whose only datum is the other sku,
\* where the extractFromPage of src/extract.ts returned null
C5_Witness ==
    /\ res.extract = NullRecord
    /\ IsRecord(res.strict)
    /\ res.strict.titulo = "" /\ res.strict.itemId = "" /\ res.strict.sku # arg.sku

Competencias == {"Ganando", "Perdiendo", "Compartiendo primer lugar", "SIN_ESTADO"}

\* some badge of bs reads w, letter case and blanks around it ignored
HasBadge(bs, w) == \E i \in 1..Len(bs) : toLowerCase(clean(bs[i])) = w

\* estado e is the first match, in the order Ganando, Perdiendo, Compartiendo
\* primer lugar (or COMPITIENDO), among the badges bs; SIN_ESTADO without any
DecidedInOrder(e, bs) ==
    LET g == HasBadge(bs, "ganando")
        p == HasBadge(bs, "perdiendo")
        c == HasBadge(bs, "compartiendo primer lugar") \/ \E i \in 1..Len(bs) : clean(bs[i]) = "COMPITIENDO"
    IN  /\ e \in Competencias
        /\ g => e = "Ganando"
        /\ (~g /\ p) => e = "Perdiendo"
        /\ (~g /\ ~p /\ c) => e = "Compartiendo primer lugar"
        /\ (~g /\ ~p /\ ~c /\ ~HasBadge(bs, "compitiendo")) => e = "SIN_ESTADO"

\* C6: the competitive status is the first match in the order Ganando,
\* Perdiendo, Compartiendo primer lugar: the strict parser (and the
\* extractFromPage that read the whole text of the row) gives Ganando when a
\* Ganando badge is there, even beside a Perdiendo badge; COMPITIENDO gives
\* Compartiendo primer lugar; no badge gives SIN_ESTADO; every extractor gives
\* one of the four values.
C6_CompetenciaInOrder ==
    /\ \A v \in {"strict", "v1", "v2"} :
           IsRecord(res[v]) => DecidedInOrder(res[v].estado_competencia, arg.row.badges)
    /\ IsRecord(res.extract) => res.extract.estado_competencia \in Competencias

\* a Perdiendo badge comes first in the row, a Ganando badge second, and the
\* strict parser says Ganando
C6_Witness ==
    /\ arg.row.badges = <<" Perdiendo ", "Ganando">>
    /\ IsRecord(res.strict)
    /\ res.strict.estado_competencia = "Ganando"

(***************************************************************************)
(* Specification SpecCsv: readSkusCsv on every short content of skus.csv   *)
(***************************************************************************)
MaxRawLen == 4

CsvAlphabet == {"1", "2", "a", ",", " ", "\n"}

RECURSIVE StringsUpTo(_)
StringsUpTo(n) ==
    IF n = 0 THEN {""}
    ELSE LET shorter == StringsUpTo(n - 1)
         IN  shorter \cup {t \o c : t \in shorter, c \in CsvAlphabet}

InitCsv ==
    /\ MainIdle
    /\ arg \in [file : {Null} \cup StringsUpTo(MaxRawLen)]
    /\ res = [done |-> FALSE]

RunReadSkusCsv ==
    /\ ~res.done
    /\ res' = [done |-> TRUE, skus |-> readSkusCsv(arg.file)]
    /\ UNCHANGED <<arg, mainVars>>

NextCsv == RunReadSkusCsv

SpecCsv == InitCsv /\ [][NextCsv]_vars

\* what the claim says of a file: the first column of each non-blank line, in
\* file order, a first line that starts with a letter skipped, and nothing
\* for a first column that is not a purely numeric token
ClaimedSkus(file) ==
    IF file = Null THEN <<>>
    ELSE LET lines == SelectSeq(MapTrim(SplitLines(file)), NotEmpty)
             body == IF lines # <<>> /\ IsLetter(Ch(lines[1], 1)) THEN Tail(lines) ELSE lines
             cols == [i \in 1..Len(body) |-> trim(FirstColumn(body[i]))]
         IN  SelectSeq(cols, AllDigits)

\* C7: readSkusCsv returns, in file order, the first column of each non-blank
\* line, skips a first line that starts with a letter, takes nothing from a
\* line whose first column is not purely numeric, returns only non-empty
\* strings of digits, and returns the empty list for a missing file.
C7_ReadSkusCsvIgnoresNonNumeric ==
    res.done =>
        /\ res.skus = ClaimedSkus(arg.file)
        /\ \A i \in 1..Len(res.skus) : AllDigits(res.skus[i])


(***************************************************************************)
(* main: the run of the monitor.  The browser, the marketplace, the user   *)
(* and the environment are the nondeterminism; what main does with them is *)
(* translated step by step.  humanPause, the mouse moves and the logs do   *)
(* not change the state and are left out                                   *)
(***************************************************************************)
MaxWaitTicks == 3   \* pauses of one second that fit in the login window

NoArg == [none |-> TRUE]

\* a listing row of sku with its title and its link
SkuRow(sku) ==
    RowHtml([DefaultRow EXCEPT !.skuLabel = "SKU " \o sku,
                               !.href = "/syi/core/modify?itemId=MLU" \o sku \o "00"])

\* a listing row of sku that shows neither title nor link
BareSkuRow(sku) ==
    RowHtml([DefaultRow EXCEPT !.skuLabel = "SKU " \o sku, !.title = "", !.href = Null])

\* html is what page.content() returns; shown, the SKUs that label its rows
LoginPage == [html |-> "<html><body><form>Ingresa tu e-mail</form></body></html>", shown |-> {}]
ListingPage == [html |-> PageHtml(SkuRow("2002") \o SkuRow("1001")), shown |-> {"1001", "2002"}]
ResultPage(sku) == [html |-> PageHtml(SkuRow(sku)), shown |-> {sku}]
LongerSkuPage(sku) == [html |-> PageHtml(SkuRow(sku \o "0")), shown |-> {sku \o "0"}]
BarePage(sku) == [html |-> PageHtml(BareSkuRow(sku)), shown |-> {sku}]
NoResultsPage(sku) ==
    [html |-> PageHtml("<h2>No hay publicaciones para SKU " \o sku \o "</h2>"), shown |-> {}]

\* what the marketplace may answer to the search of sku
SearchResults(sku) ==
    {ResultPage(sku), LongerSkuPage(sku), BarePage(sku), NoResultsPage(sku)}

\* skus.csv: missing, a lone header, one SKU, two SKUs, the same SKU twice
SkusFiles == {Null, "sku\n", "1001\n", "sku,nombre\n1001,Mate\n2002,Bombilla\n", "1001\n1001"}

\* out/ as an earlier run left it
EarlierFiles == {<<>>, [s \in {"1001"} |-> ResultPage("1001")]}

MailInteractiveValues == {Null, "false", "true", "TRUE"}
Answers == {"s", " Si ", "y", "yes", "", "n", "ok"}
RequiredEnv == {"SMTP_HOST", "SMTP_PORT", "MAIL_FROM", "MAIL_TO"}
FullEnv ==
    [v \in RequiredEnv |->
        IF v = "SMTP_HOST" THEN "smtp.example.com"
        ELSE IF v = "SMTP_PORT" THEN "587"
        ELSE IF v = "MAIL_FROM" THEN "monitor@example.com"
        ELSE "ventas@example.com"]
Envs ==
    {FullEnv} \cup {[FullEnv EXCEPT ![v] = Null] : v \in RequiredEnv}
        \cup {[FullEnv EXCEPT !["MAIL_TO"] = ""]}
NoEnv == [v \in RequiredEnv |-> NotRun]
NoFile == [header |-> "", lines |-> <<>>]

Init ==
    /\ arg = NoArg
    /\ res = NoArg
    /\ pc = "open"
    /\ urlListado = FALSE
    /\ waited = 0
    /\ loginSeen = FALSE
    /\ skusRead = FALSE
    /\ skus = <<>>
    /\ idx = 0
    /\ page = NoPage
    /\ files \in EarlierFiles
    /\ saved = <<>>
    /\ rows = <<>>
    /\ navigations = 0
    /\ csvWrites = 0
    /\ csv = NoFile
    /\ reportWrites = 0
    /\ prompts = 0
    /\ sends = 0
    /\ mail = [MAIL_INTERACTIVE |-> NotRun, confirm |-> NotRun, nodemailer |-> NotRun,
               env |-> NoEnv]
    /\ ctxClosed = FALSE
    /\ exit = "running"

\* page.goto(PUBS_URL).catch(() => {}): the listing when a session exists, the
\* login form when none does, nothing when the navigation fails
OpenListing ==
    /\ pc = "open"
    /\ \E outcome \in {"listado", "login", "failed"} :
        /\ urlListado' = (outcome = "listado")
        /\ page' = IF outcome = "listado" THEN ListingPage
                   ELSE IF outcome = "login" THEN LoginPage
                   ELSE page
    /\ pc' = "gate"
    /\ UNCHANGED <<fnVars, waited, loginSeen, skusRead, skus, idx, files, saved, rows,
                   navigations, csvWrites, csv, reportWrites, prompts, sends, mail,
                   ctxClosed, exit>>

\* the user completes the login in the browser while main waits
UserLogsIn ==
    /\ pc \in {"gate", "wait", "waitloop"}
    /\ ~urlListado
    /\ urlListado' = TRUE
    /\ page' = ListingPage
    /\ UNCHANGED <<fnVars, pc, waited, loginSeen, skusRead, skus, idx, files, saved, rows,
                   navigations, csvWrites, csv, reportWrites, prompts, sends, mail,
                   ctxClosed, exit>>

\* if (!/\/publicaciones\/listado/.test(page.url())) ... else "Sesion existente"
Gate ==
    /\ pc = "gate"
    /\ IF urlListado
       THEN loginSeen' = TRUE /\ pc' = "read"
       ELSE loginSeen' = loginSeen /\ pc' = "wait"
    /\ UNCHANGED <<fnVars, urlListado, waited, skusRead, skus, idx, page, files, saved, rows,
                   navigations, csvWrites, csv, reportWrites, prompts, sends, mail,
                   ctxClosed, exit>>

\* waitForManualLogin, up to the loop: start = Date.now() and the first test
WaitForManualLogin ==
    /\ pc = "wait"
    /\ waited' = 0
    /\ IF urlListado
       THEN loginSeen' = TRUE /\ pc' = "read"
       ELSE loginSeen' = loginSeen /\ pc' = "waitloop"
    /\ UNCHANGED <<fnVars, urlListado, skusRead, skus, idx, page, files, saved, rows,
                   navigations, csvWrites, csv, reportWrites, prompts, sends, mail,
                   ctxClosed, exit>>

\* the loop, were the end of the window to count as a login
WaitLoop_timeoutIsOk ==
    /\ pc = "waitloop"
    /\ IF waited < MaxWaitTicks
       THEN IF urlListado
            THEN loginSeen' = TRUE /\ pc' = "read" /\ waited' = 0
            ELSE loginSeen' = loginSeen /\ pc' = pc /\ waited' = waited + 1
       ELSE loginSeen' = loginSeen /\ pc' = "read" /\ waited' = 0
    /\ UNCHANGED <<fnVars, urlListado, skusRead, skus, idx, page, files, saved, rows,
                   navigations, csvWrites, csv, reportWrites, prompts, sends, mail,
                   ctxClosed, exit>>

\* one turn of while (Date.now() - start < maxMs): the test of the URL and a
\* pause, or the end of the window, which returns false without a last test
WaitLoop ==
    /\ pc = "waitloop"
    /\ IF waited < MaxWaitTicks
       THEN IF urlListado
            THEN loginSeen' = TRUE /\ pc' = "read" /\ waited' = 0
            ELSE loginSeen' = loginSeen /\ pc' = pc /\ waited' = waited + 1
       ELSE loginSeen' = loginSeen /\ pc' = "nologin" /\ waited' = 0
    /\ UNCHANGED <<fnVars, urlListado, skusRead, skus, idx, page, files, saved, rows,
                   navigations, csvWrites, csv, reportWrites, prompts, sends, mail,
                   ctxClosed, exit>>

\* if (!ok) { await context.close(); process.exit(1); }
NoLogin ==
    /\ pc = "nologin"
    /\ ctxClosed' = TRUE
    /\ exit' = "exit 1"
    /\ pc' = "exited"
    /\ UNCHANGED <<fnVars, urlListado, waited, loginSeen, skusRead, skus, idx, page, files,
                   saved, rows, navigations, csvWrites, csv, reportWrites, prompts, sends,
                   mail>>

\* the reading of skus.csv, were the empty list not tested
ReadSkus_noEmptyCheck ==
    /\ pc = "read"
    /\ \E file \in SkusFiles : skus' = readSkusCsv(file)
    /\ skusRead' = TRUE
    /\ pc' = "loop"
    /\ UNCHANGED <<fnVars, urlListado, waited, loginSeen, idx, page, files, saved, rows,
                   navigations, csvWrites, csv, reportWrites, prompts, sends, mail,
                   ctxClosed, exit>>

\* const skus = readSkusCsv("skus.csv"); if (skus.length === 0) ...
ReadSkus ==
    /\ pc = "read"
    /\ \E file \in SkusFiles : skus' = readSkusCsv(file)
    /\ skusRead' = TRUE
    /\ pc' = IF Len(skus') = 0 THEN "empty" ELSE "loop"
    /\ UNCHANGED <<fnVars, urlListado, waited, loginSeen, idx, page, files, saved, rows,
                   navigations, csvWrites, csv, reportWrites, prompts, sends, mail,
                   ctxClosed, exit>>

\* the empty list: await context.close(); process.exit(0);
ExitEmpty ==
    /\ pc = "empty"
    /\ ctxClosed' = TRUE
    /\ exit' = "exit 0"
    /\ pc' = "exited"
    /\ UNCHANGED <<fnVars, urlListado, waited, loginSeen, skusRead, skus, idx, page, files,
                   saved, rows, navigations, csvWrites, csv, reportWrites, prompts, sends,
                   mail>>


\* fs.writeFileSync(path.join("out", `page-${sku}.html`), html)
WriteFile(fs, sku, content) ==
    [f \in DOMAIN fs \cup {sku} |-> IF f = sku THEN content ELSE fs[f]]

\* the page after page.goto(url).catch(() => {}): a failed navigation leaves
\* the page as it was
AfterGoto(sku) == SearchResults(sku) \cup {page}

\* saveHtmlForSku(page, sku), all of it: the search of the SKU, then the
\* content of the page written to out/page-<sku>.html
SaveHtmlForSku ==
    /\ pc = "loop"
    /\ idx < Len(skus)
    /\ LET sku == skus[idx + 1]
       IN  \E shown \in AfterGoto(sku) :
               /\ page' = shown
               /\ files' = WriteFile(files, sku, shown)
               /\ saved' = Append(saved, [navOk |-> shown \in SearchResults(sku),
                                          written |-> TRUE, shown |-> shown.shown,
                                          threw |-> FALSE])
    /\ navigations' = navigations + 1
    /\ pc' = "parse"
    /\ UNCHANGED <<fnVars, urlListado, waited, loginSeen, skusRead, skus, idx, rows,
                   csvWrites, csv, reportWrites, prompts, sends, mail, ctxClosed, exit>>

\* saveHtmlForSku throws after the navigation (page.content() on a page that
\* crashed, a write that fails): main's catch logs it and goes to the next SKU
SaveHtmlForSkuThrows ==
    /\ pc = "loop"
    /\ idx < Len(skus)
    /\ LET sku == skus[idx + 1]
       IN  \E shown \in AfterGoto(sku) :
               /\ page' = shown
               /\ saved' = Append(saved, [navOk |-> shown \in SearchResults(sku),
                                          written |-> FALSE, shown |-> shown.shown,
                                          threw |-> TRUE])
    /\ navigations' = navigations + 1
    /\ idx' = idx + 1
    /\ UNCHANGED <<fnVars, pc, urlListado, waited, loginSeen, skusRead, skus, files, rows,
                   csvWrites, csv, reportWrites, prompts, sends, mail, ctxClosed, exit>>

\* parseFromFile(sku) of the strict parser
parseFromFile(fs, sku) ==
    IF sku \notin DOMAIN fs THEN NullRecord ELSE parseHtmlForSku(fs[sku].html, sku)

\* { ...parsed, timestamp: nowISO() }; entry is the place of the SKU in the
\* list, kept to tell which turn of the loop pushed the record
WithTs(parsed, entry) ==
    [sku |-> parsed.sku, itemId |-> parsed.itemId,
     estado_competencia |-> parsed.estado_competencia,
     estado_operativo |-> parsed.estado_operativo, titulo |-> parsed.titulo,
     entry |-> entry]

\* const parsed = parseFromFile(sku); if (!parsed) continue; rows.push(withTs)
ParseFromFile ==
    /\ pc = "parse"
    /\ LET parsed == parseFromFile(files, skus[idx + 1])
       IN  rows' = IF parsed.isNull THEN rows ELSE Append(rows, WithTs(parsed, idx + 1))
    /\ idx' = idx + 1
    /\ pc' = "loop"
    /\ UNCHANGED <<fnVars, urlListado, waited, loginSeen, skusRead, skus, page, files, saved,
                   navigations, csvWrites, csv, reportWrites, prompts, sends, mail,
                   ctxClosed, exit>>

\* parseFromFile, were its exception to leave the loop and end the process
ParseFromFileThrows_leavesLoop ==
    /\ pc = "parse"
    /\ saved' = [saved EXCEPT ![idx + 1].threw = TRUE]
    /\ idx' = idx + 1
    /\ pc' = "exited"
    /\ exit' = "exit 1"
    /\ UNCHANGED <<fnVars, urlListado, waited, loginSeen, skusRead, skus, page, files,
                   rows, navigations, csvWrites, csv, reportWrites, prompts, sends, mail,
                   ctxClosed>>

\* parseFromFile throws (fs.readFileSync fails): main's catch
ParseFromFileThrows ==
    /\ pc = "parse"
    /\ saved' = [saved EXCEPT ![idx + 1].threw = TRUE]
    /\ idx' = idx + 1
    /\ pc' = "loop"
    /\ UNCHANGED <<fnVars, urlListado, waited, loginSeen, skusRead, skus, page, files,
                   rows, navigations, csvWrites, csv, reportWrites, prompts, sends, mail,
                   ctxClosed, exit>>

csvHeader == "SKU,ITEM_ID,ESTADO_COMPETENCIA,ESTADO_OPERATIVO,TITULO,URL,TIMESTAMP"

\* recordsToCsv(rows): the header and a line per record; a line is kept as
\* the fields it is made of
recordsToCsv(rs) ==
    [header |-> csvHeader,
     lines |-> [i \in 1..Len(rs) |->
                   <<rs[i].sku, rs[i].itemId, rs[i].estado_competencia,
                     rs[i].estado_operativo, rs[i].titulo>>]]

\* the write of results.csv, were it left out when there is no record
WriteCsv_skipsWhenEmpty ==
    /\ pc = "loop"
    /\ idx = Len(skus)
    /\ IF rows = <<>>
       THEN csv' = csv /\ csvWrites' = csvWrites
       ELSE csv' = recordsToCsv(rows) /\ csvWrites' = csvWrites + 1
    /\ pc' = "report"
    /\ UNCHANGED <<fnVars, urlListado, waited, loginSeen, skusRead, skus, idx, page, files,
                   saved, rows, navigations, reportWrites, prompts, sends, mail, ctxClosed,
                   exit>>

\* after the loop: fs.writeFileSync("results.csv", recordsToCsv(rows))
WriteCsv ==
    /\ pc = "loop"
    /\ idx = Len(skus)
    /\ csv' = recordsToCsv(rows)
    /\ csvWrites' = csvWrites + 1
    /\ pc' = "report"
    /\ UNCHANGED <<fnVars, urlListado, waited, loginSeen, skusRead, skus, idx, page, files,
                   saved, rows, navigations, reportWrites, prompts, sends, mail, ctxClosed,
                   exit>>

\* fs.writeFileSync(reportPath, htmlReport(rows))
WriteReport ==
    /\ pc = "report"
    /\ reportWrites' = reportWrites + 1
    /\ pc' = "email"
    /\ UNCHANGED <<fnVars, urlListado, waited, loginSeen, skusRead, skus, idx, page, files,
                   saved, rows, navigations, csvWrites, csv, prompts, sends, mail, ctxClosed,
                   exit>>

\* String(process.env.MAIL_INTERACTIVE || "false").toLowerCase() === "true"
Interactive(value) ==
    toLowerCase(IF value = Null \/ value = "" THEN "false" ELSE value) = "true"

Email ==
    /\ pc = "email"
    /\ \E value \in MailInteractiveValues :
        /\ mail' = [mail EXCEPT !.MAIL_INTERACTIVE = value]
        /\ pc' = IF Interactive(value) THEN "prompt" ELSE "send"
    /\ UNCHANGED <<fnVars, urlListado, waited, loginSeen, skusRead, skus, idx, page, files,
                   saved, rows, navigations, csvWrites, csv, reportWrites, prompts, sends,
                   ctxClosed, exit>>

\* the ok, were a bare enter a yes
Confirmed_emptyIsYes(typed) ==
    LET confirm == toLowerCase(trim(typed))
    IN  confirm \in {"", "s", "si", "sí", "y", "yes"}

\* the ok of promptSubjectAndConfirm, for the answer as typed
Confirmed(typed) ==
    LET confirm == toLowerCase(trim(typed))
    IN  confirm \in {"s", "si", "sí", "y", "yes"}

\* promptSubjectAndConfirm and the test of its ok
Prompt ==
    /\ pc = "prompt"
    /\ prompts' = prompts + 1
    /\ \E typed \in Answers :
        /\ mail' = [mail EXCEPT !.confirm = typed]
        /\ pc' = IF Confirmed(typed) THEN "send" ELSE "cancel"
    /\ UNCHANGED <<fnVars, urlListado, waited, loginSeen, skusRead, skus, idx, page, files,
                   saved, rows, navigations, csvWrites, csv, reportWrites, sends, ctxClosed,
                   exit>>

\* if (!ok) { await context.close(); process.exit(0); }
Cancel ==
    /\ pc = "cancel"
    /\ ctxClosed' = TRUE
    /\ exit' = "exit 0"
    /\ pc' = "exited"
    /\ UNCHANGED <<fnVars, urlListado, waited, loginSeen, skusRead, skus, idx, page, files,
                   saved, rows, navigations, csvWrites, csv, reportWrites, prompts, sends,
                   mail>>

\* !SMTP_HOST || !SMTP_PORT || !MAIL_FROM || !MAIL_TO is false
EnvComplete(env) == \A v \in RequiredEnv : env[v] # Null /\ env[v] # ""

\* try { await trySendEmail(html, subject) } catch: nodemailer is imported,
\* the environment read, and sendMail called when nothing is missing; that
\* sendMail fails changes nothing here
TrySendEmail ==
    /\ pc = "send"
    /\ \E installed \in BOOLEAN, env \in Envs :
        IF installed
        THEN /\ mail' = [mail EXCEPT !.nodemailer = "imported", !.env = env]
             /\ sends' = IF EnvComplete(env) THEN sends + 1 ELSE sends
        ELSE /\ mail' = [mail EXCEPT !.nodemailer = "missing"]
             /\ sends' = sends
    /\ pc' = "close"
    /\ UNCHANGED <<fnVars, urlListado, waited, loginSeen, skusRead, skus, idx, page, files,
                   saved, rows, navigations, csvWrites, csv, reportWrites, prompts,
                   ctxClosed, exit>>

\* await context.close(), and main returns
Close ==
    /\ pc = "close"
    /\ ctxClosed' = TRUE
    /\ exit' = "exit 0"
    /\ pc' = "exited"
    /\ UNCHANGED <<fnVars, urlListado, waited, loginSeen, skusRead, skus, idx, page, files,
                   saved, rows, navigations, csvWrites, csv, reportWrites, prompts, sends,
                   mail>>

Next ==
    \/ OpenListing
    \/ UserLogsIn
    \/ Gate
    \/ WaitForManualLogin
    \/ WaitLoop
    \/ NoLogin
    \/ ReadSkus
    \/ ExitEmpty
    \/ SaveHtmlForSku
    \/ SaveHtmlForSkuThrows
    \/ ParseFromFile
    \/ ParseFromFileThrows
    \/ WriteCsv
    \/ WriteReport
    \/ Email
    \/ Prompt
    \/ Cancel
    \/ TrySendEmail
    \/ Close

Spec == Init /\ [][Next]_vars


(***************************************************************************)
(* Properties of main                                                      *)
(***************************************************************************)
\* C1: in a run that passed the login gate with a non-empty SKU list,
\* results.csv is written exactly once and only after the last SKU of the
\* list was processed, out/report.html is written after it, and both are
\* written before any email prompt or send; so too when no SKU gave a record,
\* and results.csv then holds the header alone.
C1_CsvThenReportThenEmail ==
    /\ csvWrites <= 1
    /\ reportWrites <= 1
    /\ csvWrites = 1 =>
           /\ loginSeen
           /\ skus # <<>>
           /\ idx = Len(skus)
           /\ Len(saved) = Len(skus)
           /\ csv.header = csvHeader
           /\ Len(csv.lines) = Len(rows)
           /\ \A i \in 1..Len(rows) : csv.lines[i][1] = rows[i].sku
    /\ reportWrites = 1 => csvWrites = 1
    /\ (prompts > 0 \/ sends > 0 \/ mail.MAIL_INTERACTIVE # NotRun) =>
           (csvWrites = 1 /\ reportWrites = 1)
    /\ (pc = "exited" /\ loginSeen /\ skus # <<>>) => (csvWrites = 1 /\ reportWrites = 1)

\* the run of two SKUs that gave no record, after the prompt
C1_Witness ==
    /\ pc = "exited"
    /\ Len(skus) = 2
    /\ rows = <<>>
    /\ csvWrites = 1
    /\ csv.lines = <<>>
    /\ reportWrites = 1
    /\ prompts = 1

\* C2: the loop appends a record for an entry of the SKU list only if the
\* HTML saved for that entry has a listing row labelled with that very SKU;
\* an entry whose navigation failed and whose saved page shows other SKUs
\* gets no record.
C2_NoFalsePositives ==
    /\ \A k \in 1..Len(rows) :
           /\ rows[k].entry \in 1..Len(saved)
           /\ saved[rows[k].entry].written
           /\ skus[rows[k].entry] \in saved[rows[k].entry].shown
    /\ \A e \in 1..idx :
           (~saved[e].navOk /\ skus[e] \notin saved[e].shown) =>
               \A k \in 1..Len(rows) : rows[k].entry # e

\* the navigation of an entry failed, the page saved for it shows the SKU of
\* another entry, which has its record, and the entry has none
C2_Witness ==
    \E e \in 1..idx :
        /\ ~saved[e].navOk
        /\ saved[e].written
        /\ saved[e].shown # {}
        /\ skus[e] \notin saved[e].shown
        /\ rows # <<>>
        /\ \A k \in 1..Len(rows) : rows[k].entry # e

AnsweredYes == toLowerCase(trim(mail.confirm)) \in {"s", "si", "sí", "y", "yes"}
Declined == mail.confirm # NotRun /\ ~AnsweredYes

\* C8: sendMail is called at most once, and only if MAIL_INTERACTIVE is not
\* 'true' or the user answered s, si, sí, y or yes, and SMTP_HOST, SMTP_PORT,
\* MAIL_FROM and MAIL_TO are all set; when the user declines nothing is sent,
\* the context is closed and the process exits with code 0, results.csv and
\* out/report.html being written.
C8_EmailIsGated ==
    /\ sends <= 1
    /\ sends = 1 =>
           /\ mail.MAIL_INTERACTIVE # "true" \/ AnsweredYes
           /\ \A v \in RequiredEnv : mail.env[v] \notin {Null, NotRun}
    /\ Declined =>
           /\ sends = 0
           /\ csvWrites = 1
           /\ reportWrites = 1
           /\ pc \in {"cancel", "exited"}
           /\ pc = "exited" => (ctxClosed /\ exit = "exit 0")

\* the user answered the confirmation with a bare enter, and the run is over
C8_Witness ==
    /\ pc = "exited"
    /\ mail.MAIL_INTERACTIVE = "true"
    /\ mail.confirm = ""
    /\ sends = 0
    /\ exit = "exit 0"

\* C9: no SKU is navigated to or parsed, and skus.csv is not read, unless the
\* URL was seen to match /publicaciones/listado; a run that did not see it
\* within the window closes the context and exits with code 1, having read no
\* skus.csv and written neither results.csv nor out/report.html.
C9_LoginGate ==
    /\ (navigations > 0 \/ saved # <<>> \/ rows # <<>> \/ skusRead
            \/ pc \in {"read", "empty", "loop", "parse"}) => loginSeen
    /\ pc = "nologin" => ~loginSeen
    /\ exit = "exit 1" => ~loginSeen
    /\ (pc = "exited" /\ ~loginSeen) =>
           /\ ctxClosed
           /\ exit = "exit 1"
           /\ ~skusRead
           /\ navigations = 0
           /\ csvWrites = 0
           /\ reportWrites = 0

\* the window went by without the login, and the run ended with code 1
C9_Witness ==
    /\ pc = "exited"
    /\ exit = "exit 1"
    /\ ctxClosed
    /\ ~loginSeen
    /\ ~urlListado

\* C10: when skus.csv is missing or gives no SKU, the run closes the context
\* and exits with code 0: no SKU is navigated to, neither results.csv nor
\* out/report.html is written, no email is prompted for or sent.
C10_EmptyListExits ==
    (skusRead /\ skus = <<>>) =>
        /\ navigations = 0
        /\ csvWrites = 0
        /\ reportWrites = 0
        /\ prompts = 0
        /\ sends = 0
        /\ pc \in {"empty", "exited"}
        /\ pc = "exited" => (ctxClosed /\ exit = "exit 0")

\* skus.csv was read, gave no SKU, and the run ended with code 0
C10_Witness ==
    /\ skusRead
    /\ skus = <<>>
    /\ pc = "exited"
    /\ ctxClosed
    /\ exit = "exit 0"


\* an exception was caught in the turn of entry e
Threw(e) == e \in 1..Len(saved) /\ saved[e].threw
RowsOf(e) == {k \in 1..Len(rows) : rows[k].entry = e}

\* what holds of every state of the loop and after it
FailureIsolated ==
    /\ \A e \in 1..Len(saved) : Threw(e) => (e <= idx /\ RowsOf(e) = {})
    /\ \A k \in 1..Len(rows) : rows[k].entry <= idx
    /\ \A k \in 1..(Len(rows) - 1) : rows[k].entry < rows[k + 1].entry
    /\ pc = "loop" => Len(saved) = idx
    /\ pc = "parse" => (Len(saved) = idx + 1 /\ idx < Len(skus))
    /\ (pc = "exited" /\ \E e \in 1..Len(saved) : Threw(e)) =>
           /\ idx = Len(skus)
           /\ Len(saved) = Len(skus)
           /\ csvWrites = 1
           /\ Len(csv.lines) = Len(rows)
           /\ reportWrites = 1

\* the step in which an exception is caught leaves the records as they
\* were and goes on with the next entry
CaughtStep ==
    (\E e \in 1..Len(saved') : saved'[e].threw /\ ~Threw(e)) =>
        /\ rows' = rows
        /\ idx' = idx + 1
        /\ pc' = "loop"
        /\ exit' = exit
        /\ csvWrites' = csvWrites

\* C11: an exception raised while saving or parsing the HTML of one SKU is
\* caught inside the loop: the SKU gives no record, the records collected
\* before stay as they are, every later SKU of the list is still processed,
\* and results.csv and the report are written after the last one.
C11_FailureIsolation == []FailureIsolated /\ [][CaughtStep]_vars

\* parsing the first SKU threw, the second SKU gave the only record, and
\* the run ended with both files written
C11_Witness ==
    /\ pc = "exited"
    /\ Len(skus) = 2
    /\ Threw(1)
    /\ saved[1].written
    /\ RowsOf(2) # {}
    /\ Len(rows) = 1
    /\ csvWrites = 1
    /\ reportWrites = 1


\* the strict parser has answered for a row that shows neither a status
\* label nor a row class, so that its switch decides estado_operativo
SwitchDecides ==
    /\ res.strict # Pending
    /\ IsRecord(res.strict)
    /\ arg.row.status = ""
    /\ arg.row.rowClass = ""

\* C12 (as claimed): with no status label and no row class, a switch whose
\* role="switch" element carries aria-checked="false" gives 'Pausada', and
\* one carrying checked or aria-checked="true" gives 'Activa'.
C12_SwitchStateDecides ==
    SwitchDecides =>
        /\ arg.row.switch = "aria-checked=\"false\"" =>
               res.strict.estado_operativo = "Pausada"
        /\ arg.row.switch \in {"checked", "aria-checked=\"true\""} =>
               res.strict.estado_operativo = "Activa"


Operativos == {"Activa", "Pausada", "Inactiva", "UNKNOWN"}

\* what each row class stands for
OperativoOfClass(c) ==
    IF c = "--active" THEN "Activa" ELSE IF c = "--paused" THEN "Pausada" ELSE "Inactiva"

\* C13: strict parseHtmlForSku decides estado_operativo by a chain: the
\* status label wins over the row class, the row class wins over the
\* switch, a stage counts only when every earlier one found nothing, the
\* result stays 'UNKNOWN' only when no stage matched, and it is always one
\* of the four declared values.
C13_OperativoFallbackChain ==
    (res.strict # Pending /\ IsRecord(res.strict)) =>
        LET d == arg.row
            op == res.strict.estado_operativo
        IN  /\ op \in Operativos
            /\ d.status # "" => op = d.status
            /\ (d.status = "" /\ d.rowClass # "") => op = OperativoOfClass(d.rowClass)
            /\ (d.status = "" /\ d.rowClass = "" /\ d.switch # "none") =>
                   op \in {"Activa", "Pausada"}
            /\ op = "UNKNOWN" <=> (d.status = "" /\ d.rowClass = "" /\ d.switch = "none")

\* a row whose label, class and switch each name a different state, answered
\* with the label's
C13_Witness ==
    /\ res.strict # Pending
    /\ IsRecord(res.strict)
    /\ arg.row.status = "Inactiva"
    /\ arg.row.rowClass = "--paused"
    /\ arg.row.switch = "checked"
    /\ res.strict.estado_operativo = "Inactiva"


\* the implementations that answered with a record, once all four have run
Answered == \A v \in Extractors : res[v] # Pending
Records == {v \in Extractors : IsRecord(res[v])}

CompetenciasAgree ==
    \A v, w \in Records : res[v].estado_competencia = res[w].estado_competencia

OperativosAgree ==
    \A v, w \in Records : res[v].estado_operativo = res[w].estado_operativo

\* the row's estado_operativo can be read from its status label alone: it
\* has the label, no row class and no switch
LabelAlone == arg.row.status # "" /\ arg.row.rowClass = "" /\ arg.row.switch = "none"

\* C14 (as claimed): for the same badge text and the same status label
\* text, extract.ts, the two other extractFromPage variants and strict
\* parseHtmlForSku return the same estado_competencia and the same
\* estado_operativo.
C14_ClassifiersAgree ==
    Answered =>
        /\ Len(arg.row.badges) = 1 => CompetenciasAgree
        /\ LabelAlone => OperativosAgree

============================================================================
